---- MODULE Spec2Model ----
(***************************************************************************)
(* A model of cliapp's Application (src/cliapp/app.py): the settings it    *)
(* declares on an optparse.OptionParser, the defaults it records, the      *)
(* command line parser it drives, the byte-size parser, and the counters   *)
(* it keeps while it reads its inputs.                                     *)
(*                                                                         *)
(* Python strings are sequences of one-character strings, so that          *)
(* _option_names, _attr_name and the byte-size regular expression are      *)
(* computed on characters, as the code computes them.                      *)
(***************************************************************************)
EXTENDS Integers, Sequences, FiniteSets, TLC

VARIABLES
    option_list,   \* self.parser.option_list: the declared options, in order
    defaults,      \* self.parser.defaults: attribute name -> default value
    has_options,   \* whether self.options exists (parse_args assigns it)
    options,       \* self.options: attribute name -> value
    registered,    \* history: the arguments of every add_*_setting call
    cmdline,       \* history: the parse_args call self.options comes from
    written,       \* history: what assignments and load_configs have written
    result,        \* the outcome of the latest call that is not a query
    size,          \* the string handed to _parse_human_size
    size_out,      \* what _parse_human_size returned for it
    fileno,        \* self.fileno
    global_lineno, \* self.global_lineno
    lineno,        \* self.lineno
    stdin,         \* the lines sys.stdin has yet to give
    todo,          \* process_inputs: the names its loop has yet to finish
    infile,        \* process_input: its f, the open input with its lines
                   \* to come
    started,       \* history: every process_input call, with the lines it
                   \* has handed to process_input_line
    call,          \* history: the latest process_inputs call, its argument
                   \* and the number of process_input calls before it
    pc             \* "app": the program runs, "exited": a SystemExit or an
                   \* exception of parse_args has ended it; "size": before
                   \* the call of _parse_human_size, "done": after it;
                   \* "inputs": in the loop of process_inputs, "lines": in
                   \* the loop of process_input

input_vars ==
    <<fileno, global_lineno, lineno, stdin, todo, infile, started, call>>

vars == <<option_list, defaults, has_options, options, registered, cmdline,
          written, result, size, size_out, fileno, global_lineno, lineno,
          stdin, todo, infile, started, call, pc>>

----------------------------------------------------------------------------
(* Bounds of the model. *)

MaxSettings == 2   \* add_*_setting calls after construction
MaxArgs == 2       \* length of a command line
MaxFiles == 2      \* length of config_files
MaxListLen == 2    \* length a list that is a parser default may grow to
MaxDigits == 2     \* digits of the integer part of a size
MaxNames == 2      \* length of the list process_inputs is given
MaxInputs == 3     \* process_input calls in the life of an Application

----------------------------------------------------------------------------
(* Python values. Every value is a record of the same shape: t is the      *)
(* Python type, s the strings it holds (one for a str, the items of a      *)
(* list), n a natural number in limbs (see below).                         *)

None == [t |-> "None", s |-> <<>>, n |-> <<>>]
Str(cs) == [t |-> "str", s |-> <<cs>>, n |-> <<>>]
List(items) == [t |-> "list", s |-> items, n |-> <<>>]
Bool(b) == [t |-> "bool", s |-> <<>>, n |-> IF b THEN <<1>> ELSE <<>>]
Num(big) == [t |-> "int", s |-> <<>>, n |-> big]

(* Python's truth value of a value: None, '', [], False and 0 are false. *)
Truthy(v) ==
    CASE v.t = "None" -> FALSE
      [] v.t = "str" -> v.s[1] # <<>>
      [] v.t = "list" -> v.s # <<>>
      [] OTHER -> v.n # <<>>

----------------------------------------------------------------------------
(* Natural numbers of any size (Python's int and long): limbs in base      *)
(* 1000, least significant first, no leading zero limb; zero is <<>>.      *)

Base == 10 * 10 * 10

RECURSIVE BigNorm(_)
BigNorm(b) ==
    IF b # <<>> /\ b[Len(b)] = 0 THEN BigNorm(SubSeq(b, 1, Len(b) - 1)) ELSE b

RECURSIVE BigAddCarry(_, _, _)
BigAddCarry(a, b, carry) ==
    IF a = <<>> /\ b = <<>>
    THEN IF carry = 0 THEN <<>> ELSE <<carry>>
    ELSE LET x == IF a = <<>> THEN 0 ELSE a[1]
             y == IF b = <<>> THEN 0 ELSE b[1]
             t == x + y + carry
         IN  <<t % Base>> \o BigAddCarry(IF a = <<>> THEN <<>> ELSE Tail(a),
                                         IF b = <<>> THEN <<>> ELSE Tail(b),
                                         t \div Base)

BigAdd(a, b) == BigNorm(BigAddCarry(a, b, 0))

RECURSIVE BigMulCarry(_, _, _)
BigMulCarry(a, m, carry) ==
    IF a = <<>>
    THEN IF carry = 0 THEN <<>>
         ELSE <<carry % Base>> \o BigMulCarry(<<>>, m, carry \div Base)
    ELSE LET t == a[1] * m + carry
         IN  <<t % Base>> \o BigMulCarry(Tail(a), m, t \div Base)

(* a * m for a small m (m < Base * Base). *)
BigMulSmall(a, m) == BigNorm(BigMulCarry(a, m, 0))

RECURSIVE BigMul(_, _)
BigMul(a, b) ==
    IF a = <<>> THEN <<>>
    ELSE BigAdd(BigMulSmall(b, a[1]),
                LET rest == BigMul(Tail(a), b)
                IN  IF rest = <<>> THEN <<>> ELSE <<0>> \o rest)

RECURSIVE BigPow(_, _)
(* b^e, by squaring. *)
BigPow(b, e) ==
    IF e = 0 THEN <<1>>
    ELSE LET half == BigPow(b, e \div 2)
             square == BigMul(half, half)
         IN  IF e % 2 = 0 THEN square ELSE BigMulSmall(square, b)

RECURSIVE BigDivRem(_, _, _)
(* The limbs of a \div d, most significant limb of a first. *)
BigDivRem(a, d, rem) ==
    IF a = <<>> THEN <<>>
    ELSE LET t == rem * Base + a[Len(a)]
         IN  BigDivRem(SubSeq(a, 1, Len(a) - 1), d, t % d) \o <<t \div d>>

(* floor(a / d) for a small d. *)
BigDivSmall(a, d) == BigNorm(BigDivRem(a, d, 0))

RECURSIVE TenTo(_)
(* 10^e as a small number, for e the length of a fraction. *)
TenTo(e) == IF e = 0 THEN 1 ELSE 10 * TenTo(e - 1)

BigOfInt(i) == BigNorm(<<i % Base, (i \div Base) % Base, i \div (Base * Base)>>)

----------------------------------------------------------------------------
(* Characters. *)

Digits == <<"0", "1", "2", "3", "4", "5", "6", "7", "8", "9">>
UpperCase == <<"A", "B", "C", "D", "E", "F", "G", "H", "I", "J", "K", "L", "M",
               "N", "O", "P", "Q", "R", "S", "T", "U", "V", "W", "X", "Y", "Z">>
LowerCase == <<"a", "b", "c", "d", "e", "f", "g", "h", "i", "j", "k", "l", "m",
               "n", "o", "p", "q", "r", "s", "t", "u", "v", "w", "x", "y", "z">>

IsDigit(c) == \E i \in DOMAIN Digits : Digits[i] = c
DigitValue(c) == (CHOOSE i \in DOMAIN Digits : Digits[i] = c) - 1
(* \s of Python's re for a str. *)
IsSpace(c) == c \in {" ", "\t", "\n", "\r", "\f"}

(* str.lower() *)
LowerChar(c) ==
    IF \E i \in DOMAIN UpperCase : UpperCase[i] = c
    THEN LowerCase[CHOOSE i \in DOMAIN UpperCase : UpperCase[i] = c]
    ELSE c
Lower(cs) == [i \in DOMAIN cs |-> LowerChar(cs[i])]

RECURSIVE DigitRun(_, _)
(* The first position at or after i that holds no digit: \d* from i. *)
DigitRun(cs, i) ==
    IF i <= Len(cs) /\ IsDigit(cs[i]) THEN DigitRun(cs, i + 1) ELSE i

RECURSIVE SpaceRun(_, _)
(* The first position at or after i that holds no white space: \s* from i. *)
SpaceRun(cs, i) ==
    IF i <= Len(cs) /\ IsSpace(cs[i]) THEN SpaceRun(cs, i + 1) ELSE i

HasPrefixAt(cs, i, u) ==
    /\ i + Len(u) - 1 <= Len(cs)
    /\ SubSeq(cs, i, i + Len(u) - 1) = u

RECURSIVE BigOfDigits(_)
(* The number a string of decimal digits writes. *)
BigOfDigits(ds) ==
    IF ds = <<>> THEN <<>>
    ELSE BigAdd(BigMulSmall(BigOfDigits(SubSeq(ds, 1, Len(ds) - 1)), 10),
                BigOfInt(DigitValue(ds[Len(ds)])))

----------------------------------------------------------------------------
(* Application._parse_human_size *)

(* The alternatives of (?P<unit>k|ki|m|mi|g|gi|t|ti), in the order the     *)
(* regular expression tries them.                                          *)
UnitAlternatives ==
    << <<"k">>, <<"k", "i">>, <<"m">>, <<"m", "i">>,
       <<"g">>, <<"g", "i">>, <<"t">>, <<"t", "i">> >>

(* The units table of _parse_human_size. *)
units(unit) ==
    CASE unit = <<"k">> -> BigPow(10, 3)
      [] unit = <<"m">> -> BigPow(10, 6)
      [] unit = <<"g">> -> BigPow(10, 9)
      [] unit = <<"t">> -> BigPow(10, 12)
      [] unit = <<"k", "i">> -> BigPow(2, 10)
      [] unit = <<"m", "i">> -> BigPow(2, 20)
      [] unit = <<"g", "i">> -> BigPow(2, 30)
      [] unit = <<"t", "i">> -> BigPow(2, 40)
      [] OTHER -> <<1>>    \* units.get(unit, 1)

(* b? \s*$ from position j. *)
SizeTailMatches(cs, j) ==
    LET j2 == IF j <= Len(cs) /\ cs[j] = "b" THEN j + 1 ELSE j
    IN  SpaceRun(cs, j2) = Len(cs) + 1

(* re.match of the pattern against cs (already lower case): whether it     *)
(* matches, and the groups. re.match anchors the pattern at the start of   *)
(* the string; the unit group is tried alternative by alternative and      *)
(* given up when the rest does not match after it.                         *)
SizeMatch(cs) ==
    LET i1 == DigitRun(cs, 1)
        hasFrac == /\ i1 + 1 <= Len(cs)
                   /\ cs[i1] = "."
                   /\ IsDigit(cs[i1 + 1])
        i2 == IF hasFrac THEN DigitRun(cs, i1 + 1) ELSE i1
        i3 == SpaceRun(cs, i2)
        fits == {k \in DOMAIN UnitAlternatives :
                    /\ HasPrefixAt(cs, i3, UnitAlternatives[k])
                    /\ SizeTailMatches(cs, i3 + Len(UnitAlternatives[k]))}
        unit == IF fits # {}
                THEN UnitAlternatives[CHOOSE k \in fits : \A l \in fits : k <= l]
                ELSE <<>>
    IN  [matched |-> /\ i1 > 1
                     /\ (fits # {} \/ SizeTailMatches(cs, i3)),
         whole |-> SubSeq(cs, 1, i1 - 1),
         frac |-> IF hasFrac THEN SubSeq(cs, i1 + 1, i2 - 1) ELSE <<>>,
         unit |-> unit]

(* int(float(number) * units.get(unit, 1)): the product, cut to its        *)
(* integer part. The product is computed exactly, which is what the        *)
(* double-precision product is for the numbers of this model (SizeNumbers: *)
(* a few digits and a fraction that is a multiple of 1/4).                 *)
parse_human_size(sz) ==
    LET m == SizeMatch(Lower(sz))
    IN  IF ~m.matched
        THEN <<>>
        ELSE BigDivSmall(BigMul(BigOfDigits(m.whole \o m.frac), units(m.unit)),
                         TenTo(Len(m.frac)))

----------------------------------------------------------------------------
(* Setting names and option strings. *)

n_output == <<"o", "u", "t", "p", "u", "t">>
n_log == <<"l", "o", "g">>
n_log_level == <<"l", "o", "g", "-", "l", "e", "v", "e", "l">>
n_dump_setting_names ==
    <<"d", "u", "m", "p", "-", "s", "e", "t", "t", "i", "n", "g", "-",
      "n", "a", "m", "e", "s">>
n_foo == <<"f", "o", "o">>
n_f == <<"f">>
n_nope == <<"n", "o", "p", "e">>
s_info == <<"i", "n", "f", "o">>
s_a == <<"a">>
s_b == <<"b">>
s_7 == <<"7">>

(* Application._option_names *)
_option_names(names) ==
    [i \in DOMAIN names |->
        IF Len(names[i]) > 1 THEN <<"-", "-">> \o names[i]
        ELSE <<"-">> \o names[i]]

(* Application._attr_name: '_'.join(name.split('-')) *)
_attr_name(name) == [i \in DOMAIN name |-> IF name[i] = "-" THEN "_" ELSE name[i]]

----------------------------------------------------------------------------
(* optparse, as far as Application uses it. A parser is its option_list    *)
(* and its defaults; raised names the exception a call ended with.         *)

Put(f, k, v) == [a \in DOMAIN f \cup {k} |-> IF a = k THEN v ELSE f[a]]

Range(seq) == {seq[i] : i \in DOMAIN seq}

(* Option._set_opt_strings: an option string longer than two characters    *)
(* is a long option, one of two characters a short one.                    *)
IsLongOpt(opt) == Len(opt) > 2
LongOpts(opts) == SelectSeq(opts, IsLongOpt)
ShortOpts(opts) == SelectSeq(opts, LAMBDA o : ~IsLongOpt(o))

NoDest == <<>>

(* Option._check_dest: the destination is gleaned from the first long      *)
(* option string ("--foo-bar" -> "foo_bar"), or from the first short one   *)
(* when there is no long one.                                              *)
OptionDest(opts) ==
    IF LongOpts(opts) # <<>>
    THEN LET long == LongOpts(opts)[1]
         IN  _attr_name(SubSeq(long, 3, Len(long)))
    ELSE <<ShortOpts(opts)[1][2]>>

(* optparse.Option: its option strings, action, type, choices, callback   *)
(* and nargs.                                                              *)
Option(opts, action, type, choices, callback, nargs) ==
    [opts |-> opts,
     dest |-> IF action \in {"help", "version"} THEN NoDest ELSE OptionDest(opts),
     action |-> action, type |-> type, choices |-> choices,
     callback |-> callback, nargs |-> nargs]

(* OptionParser.get_option: the option with that option string, if any. *)
HasOption(olist, opt) == \E i \in DOMAIN olist : opt \in Range(olist[i].opts)
GetOption(olist, opt) ==
    olist[CHOOSE i \in DOMAIN olist : opt \in Range(olist[i].opts)]

(* add_option resolving conflicts silently: nothing is raised, and the     *)
(* option is added beside the one that has its option string.             *)
add_option_resolve(p, option) ==
    [option_list |-> Append(p.option_list, option),
     defaults |-> IF option.dest = NoDest \/ option.dest \in DOMAIN p.defaults
                  THEN p.defaults
                  ELSE Put(p.defaults, option.dest, None),
     raised |-> ""]

(* OptionParser.add_option: an option string already in use raises         *)
(* OptionConflictError and changes nothing; otherwise the option is        *)
(* appended and its dest gets the default None unless it has one.          *)
add_option(p, option) ==
    IF \E i \in DOMAIN option.opts : HasOption(p.option_list, option.opts[i])
    THEN [p EXCEPT !.raised = "OptionConflictError"]
    ELSE [option_list |-> Append(p.option_list, option),
          defaults |-> IF option.dest = NoDest \/ option.dest \in DOMAIN p.defaults
                       THEN p.defaults
                       ELSE Put(p.defaults, option.dest, None),
          raised |-> ""]

(* OptionParser.set_default *)
set_default(p, dest, value) == [p EXCEPT !.defaults = Put(p.defaults, dest, value)]

----------------------------------------------------------------------------
(* Application: declaring settings. *)

(* _set_default_value recording the default under the last name. *)
_set_default_value_last(p, names, value) ==
    set_default(p, _attr_name(names[Len(names)]), value)

(* Application._set_default_value *)
_set_default_value(p, names, value) == set_default(p, _attr_name(names[1]), value)

(* add_string_setting with the action of add_string_list_setting. *)
add_string_setting_append(p, names, default) ==
    LET q == add_option(p, Option(_option_names(names), "append", "string",
                                  <<>>, "", 1))
    IN  IF q.raised # "" THEN q ELSE _set_default_value(q, names, default)

(* Application.add_string_setting *)
add_string_setting(p, names, default) ==
    LET q == add_option(p, Option(_option_names(names), "store", "string",
                                  <<>>, "", 1))
    IN  IF q.raised # "" THEN q ELSE _set_default_value(q, names, default)

(* Application.add_string_list_setting: records default or [] *)
add_string_list_setting(p, names, default) ==
    LET q == add_option(p, Option(_option_names(names), "append", "string",
                                  <<>>, "", 1))
    IN  IF q.raised # "" THEN q
        ELSE _set_default_value(q, names,
                                IF Truthy(default) THEN default ELSE List(<<>>))

(* add_choice_setting without type='choice': the option is a string        *)
(* option.                                                                 *)
add_choice_setting_untyped(p, names, possibilities, default) ==
    LET q == add_option(p, Option(_option_names(names), "store", "string",
                                  <<>>, "", 1))
    IN  IF q.raised # "" THEN q
        ELSE _set_default_value(q, names, Str(possibilities[1]))

(* Application.add_choice_setting: records possibilities[0], whatever      *)
(* default is.                                                             *)
add_choice_setting(p, names, possibilities, default) ==
    LET q == add_option(p, Option(_option_names(names), "store", "choice",
                                  possibilities, "", 1))
    IN  IF q.raised # "" THEN q
        ELSE _set_default_value(q, names, Str(possibilities[1]))

(* Application.add_boolean_setting *)
add_boolean_setting(p, names, default) ==
    LET q == add_option(p, Option(_option_names(names), "store_true", "",
                                  <<>>, "", 0))
    IN  IF q.raised # "" THEN q ELSE _set_default_value(q, names, default)

(* Application.add_callback_setting *)
add_callback_setting(p, names, callback, nargs, default) ==
    LET q == add_option(p, Option(_option_names(names), "callback", "string",
                                  <<>>, callback, nargs))
    IN  IF q.raised # "" THEN q ELSE _set_default_value(q, names, default)

(* Application.add_bytesize_setting *)
add_bytesize_setting(p, names, default) ==
    add_callback_setting(p, names, "_parse_human_size", 1, default)

(* add_integer_setting without type='long': the option is a string option. *)
add_integer_setting_untyped(p, names, default) ==
    LET q == add_option(p, Option(_option_names(names), "store", "string",
                                  <<>>, "", 1))
    IN  IF q.raised # "" THEN q ELSE _set_default_value(q, names, default)

(* Application.add_integer_setting *)
add_integer_setting(p, names, default) ==
    LET q == add_option(p, Option(_option_names(names), "store", "long",
                                  <<>>, "", 1))
    IN  IF q.raised # "" THEN q ELSE _set_default_value(q, names, default)

(* optparse.OptionParser(version=, prog=): --version, then -h/--help. *)
NewOptionParser ==
    [option_list |->
        << Option(<< <<"-", "-", "v", "e", "r", "s", "i", "o", "n">> >>,
                  "version", "", <<>>, "", 0),
           Option(<< <<"-", "h">>, <<"-", "-", "h", "e", "l", "p">> >>,
                  "help", "", <<>>, "", 0) >>,
     defaults |-> [a \in {} |-> None],
     raised |-> ""]

(* Application._init_parser *)
_init_parser ==
    add_callback_setting(
        add_string_setting(
            add_string_setting(
                add_string_setting(NewOptionParser, <<n_output>>, Str(<<>>)),
                <<n_log>>, Str(<<>>)),
            <<n_log_level>>, Str(s_info)),
        <<n_dump_setting_names>>, "_dump_setting_names", 0, None)

(* The history of the add_*_setting calls of _init_parser. *)
Registration(kind, names, default, possibilities) ==
    [kind |-> kind, names |-> names, default |-> default,
     possibilities |-> possibilities]

BuiltinRegistrations ==
    << Registration("string", <<n_output>>, Str(<<>>), <<>>),
       Registration("string", <<n_log>>, Str(<<>>), <<>>),
       Registration("string", <<n_log_level>>, Str(s_info), <<>>),
       Registration("callback", <<n_dump_setting_names>>, None, <<>>) >>

----------------------------------------------------------------------------
(* optparse: parsing a command line. Arguments are strings, as in          *)
(* sys.argv. A parse runs on st: the Values being filled, the parser's     *)
(* defaults, the destinations whose value is still the very object the     *)
(* parser's defaults hold (shared), the arguments left (rargs), the        *)
(* positional arguments met (largs), and how the parse ended.              *)

IndexOf(cs, c) ==
    IF \E i \in DOMAIN cs : cs[i] = c
    THEN CHOOSE i \in DOMAIN cs : cs[i] = c /\ \A j \in 1..(i - 1) : cs[j] # c
    ELSE 0

AllOpts(olist) == UNION {Range(olist[i].opts) : i \in DOMAIN olist}

(* OptionParser._match_long_opt (_match_abbrev): the option string itself  *)
(* if it is declared, else the only declared long option it abbreviates;   *)
(* <<>> when there is none or more than one (BadOptionError).              *)
MatchLongOpt(olist, opt) ==
    LET long == {o \in AllOpts(olist) : IsLongOpt(o)}
        starts == {o \in long : HasPrefixAt(o, 1, opt)}
    IN  IF opt \in long THEN opt
        ELSE IF Cardinality(starts) = 1 THEN CHOOSE o \in starts : TRUE
        ELSE <<>>

(* Option.takes_value *)
TakesValue(option) == option.type # ""

RECURSIVE OctalValue(_)
OctalValue(ds) ==
    IF ds = <<>> THEN <<>>
    ELSE BigAdd(BigMulSmall(OctalValue(SubSeq(ds, 1, Len(ds) - 1)), 8),
                BigOfInt(DigitValue(ds[Len(ds)])))

(* optparse._parse_long on a string of digits: a leading 0 makes it octal. *)
(* Any other string of the model's arguments is no number.                 *)
ParseLong(cs) ==
    LET digits == cs # <<>> /\ \A i \in DOMAIN cs : IsDigit(cs[i])
        octal == digits /\ cs[1] = "0"
    IN  [ok |-> /\ digits
                /\ (octal => \A i \in DOMAIN cs : DigitValue(cs[i]) < 8),
         val |-> IF ~digits THEN <<>>
                 ELSE IF octal THEN OctalValue(cs) ELSE BigOfDigits(cs)]

(* Option.check_value: the value of an argument string for the option's    *)
(* type; not ok stands for OptionValueError.                               *)
CheckValue(option, cs) ==
    CASE option.type = "choice" ->
            [ok |-> cs \in Range(option.choices), val |-> Str(cs)]
      [] option.type = "long" ->
            [ok |-> ParseLong(cs).ok, val |-> Num(ParseLong(cs).val)]
      [] OTHER -> [ok |-> TRUE, val |-> Str(cs)]

(* A parse that starts from no defaults: every attribute None. *)
GetDefaultValuesNone(olist, defs) ==
    [raised |-> "", values |-> [d \in DOMAIN defs |-> None]]

(* OptionParser.get_default_values: a copy of the defaults in which a      *)
(* default that is a string has gone through check_value. The values of    *)
(* the copy are the objects the defaults hold.                             *)
GetDefaultValues(olist, defs) ==
    LET OptionOf(d) == olist[CHOOSE i \in DOMAIN olist : olist[i].dest = d]
        declared == {d \in DOMAIN defs : \E i \in DOMAIN olist : olist[i].dest = d}
        checked == {d \in declared : defs[d].t = "str"}
    IN  [raised |-> IF \E d \in checked : ~CheckValue(OptionOf(d), defs[d].s[1]).ok
                    THEN "OptionValueError" ELSE "",
         values |-> [d \in DOMAIN defs |->
                        IF d \in checked /\ CheckValue(OptionOf(d), defs[d].s[1]).ok
                        THEN CheckValue(OptionOf(d), defs[d].s[1]).val
                        ELSE defs[d]]]

(* The callbacks add_callback_setting is given: _parse_human_size for a    *)
(* byte size; the application's own callback of this model is              *)
(* lambda s: [s].                                                          *)
Callback(name, cs) ==
    IF name = "_parse_human_size" THEN Num(parse_human_size(cs)) ELSE List(<<cs>>)

(* OptionParser.error: sys.exit(2) *)
ParseError(st) == [st EXCEPT !.status = "exit", !.code = 2]
(* sys.exit(0), of --help, --version and _dump_setting_names *)
ParseQuit(st) == [st EXCEPT !.status = "exit", !.code = 0]

(* Option.process: convert_value, then take_action. hasValue is false for  *)
(* an option without argument (value None, or the empty tuple of           *)
(* nargs=0).                                                               *)
OptionProcess(st, option, hasValue, cs) ==
    LET checked == CheckValue(option, cs)
        dest == option.dest
        current == IF dest \in DOMAIN st.values THEN st.values[dest] ELSE None
    IN  IF hasValue /\ ~checked.ok THEN ParseError(st)
        ELSE CASE option.action = "store" ->
                    [st EXCEPT !.values = Put(st.values, dest, checked.val),
                               !.shared = st.shared \ {dest}]
               [] option.action = "append" ->
                    \* values.ensure_value(dest, []).append(value)
                    IF current = None
                    THEN [st EXCEPT !.values = Put(st.values, dest, List(<<cs>>)),
                                    !.shared = st.shared \ {dest}]
                    ELSE IF current.t # "list"
                    THEN [st EXCEPT !.status = "raise"]    \* no append attribute
                    ELSE LET appended == List(Append(current.s, cs))
                         IN  [st EXCEPT !.values = Put(st.values, dest, appended),
                                        !.defaults = IF dest \in st.shared
                                                     THEN Put(st.defaults, dest, appended)
                                                     ELSE st.defaults]
               [] option.action = "store_true" ->
                    [st EXCEPT !.values = Put(st.values, dest, Bool(TRUE)),
                               !.shared = st.shared \ {dest}]
               [] option.action = "callback" ->
                    \* callback_wrapper: sets option.dest to what the callback returns
                    IF option.callback = "_dump_setting_names"
                    THEN ParseQuit(st)
                    ELSE [st EXCEPT !.values = Put(st.values, dest,
                                                   Callback(option.callback, cs)),
                                    !.shared = st.shared \ {dest}]
               [] OTHER -> ParseQuit(st)    \* help, version

(* The argument of an option that takes one: the next of rargs. *)
TakeValue(st, option, explicit) ==
    IF TakesValue(option)
    THEN IF Len(st.rargs) < option.nargs
         THEN ParseError(st)                 \* option requires an argument
         ELSE IF option.nargs = 1
              THEN OptionProcess([st EXCEPT !.rargs = Tail(st.rargs)], option,
                                 TRUE, Head(st.rargs))
              ELSE OptionProcess(st, option, FALSE, <<>>)
    ELSE IF explicit
         THEN ParseError(st)                 \* option does not take a value
         ELSE OptionProcess(st, option, FALSE, <<>>)

(* OptionParser._process_long_opt *)
ProcessLongOpt(olist, st) ==
    LET arg == Head(st.rargs)
        k == IndexOf(arg, "=")
        opt == IF k > 0 THEN SubSeq(arg, 1, k - 1) ELSE arg
        rargs == IF k > 0 THEN <<SubSeq(arg, k + 1, Len(arg))>> \o Tail(st.rargs)
                 ELSE Tail(st.rargs)
        matched == MatchLongOpt(olist, opt)
    IN  IF matched = <<>> THEN ParseError(st)
        ELSE TakeValue([st EXCEPT !.rargs = rargs], GetOption(olist, matched), k > 0)

RECURSIVE ProcessShortOpts(_, _, _, _)
(* OptionParser._process_short_opts: the letters of arg from position i;   *)
(* st.rargs no longer holds arg.                                           *)
ProcessShortOpts(olist, st, arg, i) ==
    IF i > Len(arg) \/ st.status # "run" THEN st
    ELSE LET opt == <<"-", arg[i]>>
         IN  IF ~HasOption(olist, opt) THEN ParseError(st)
             ELSE LET option == GetOption(olist, opt)
                  IN  IF TakesValue(option)
                      THEN TakeValue(
                              IF i < Len(arg)
                              THEN [st EXCEPT !.rargs =
                                       <<SubSeq(arg, i + 1, Len(arg))>> \o st.rargs]
                              ELSE st,
                              option, FALSE)
                      ELSE ProcessShortOpts(olist,
                                            OptionProcess(st, option, FALSE, <<>>),
                                            arg, i + 1)

RECURSIVE ProcessArgs(_, _)
(* OptionParser._process_args *)
ProcessArgs(olist, st) ==
    IF st.status # "run" \/ st.rargs = <<>> THEN st
    ELSE LET arg == Head(st.rargs)
         IN  IF arg = <<"-", "-">>
             THEN [st EXCEPT !.rargs = Tail(st.rargs)]
             ELSE IF HasPrefixAt(arg, 1, <<"-", "-">>)
             THEN ProcessArgs(olist, ProcessLongOpt(olist, st))
             ELSE IF Len(arg) > 1 /\ arg[1] = "-"
             THEN ProcessArgs(olist,
                              ProcessShortOpts(olist,
                                               [st EXCEPT !.rargs = Tail(st.rargs)],
                                               arg, 2))
             ELSE ProcessArgs(olist, [st EXCEPT !.largs = Append(st.largs, arg),
                                                !.rargs = Tail(st.rargs)])

(* OptionParser.parse_args(args): the state the parse ends in. status is   *)
(* "run" when it returns (values, largs + rargs), "exit" when it ends in   *)
(* sys.exit(code), "raise" when get_default_values raises.                 *)
OptionParserParseArgs(olist, defs, args) ==
    LET start == GetDefaultValues(olist, defs)
        st == [values |-> start.values, defaults |-> defs,
               shared |-> {d \in DOMAIN defs : defs[d].t = "list"},
               rargs |-> args, largs |-> <<>>, status |-> "run", code |-> 0]
    IN  IF start.raised # "" THEN [st EXCEPT !.status = "raise"]
        ELSE ProcessArgs(olist, st)

----------------------------------------------------------------------------
(* The inputs of the model. *)

NameLists == {<<n_foo>>, <<n_f, n_foo>>, <<n_foo, n_f>>, <<n_log>>}
QueryNames == {n_foo, n_f, n_log_level, n_nope}

StringDefaults == {Str(<<>>), None, Str(s_b)}
StringListDefaults == {None, List(<<s_b>>)}
Possibilities == {<<s_b, s_a>>}
ChoiceDefaults == {None, Str(s_a)}
BooleanDefaults == {Bool(FALSE), Bool(TRUE)}
BytesizeDefaults == {Num(<<>>), Num(<<5>>)}
IntegerDefaults == {None, Num(<<3>>)}
CallbackDefaults == {None}

(* --foo=a  --foo=7  -f  --log-level=a  --dump *)
Arguments ==
    { <<"-", "-">> \o n_foo \o <<"=">> \o s_a,
      <<"-", "-">> \o n_foo \o <<"=">> \o s_7,
      <<"-">> \o n_f,
      <<"-", "-">> \o n_log_level \o <<"=">> \o s_a,
      <<"-", "-", "d", "u", "m", "p">> }

RECURSIVE SeqsUpTo(_, _)
(* The sequences over S of length at most n. *)
SeqsUpTo(S, n) ==
    IF n = 0 THEN {<<>>}
    ELSE LET shorter == SeqsUpTo(S, n - 1)
         IN  shorter \cup {Append(q, x) : q \in shorter, x \in S}

ArgLists == SeqsUpTo(Arguments, MaxArgs)

AssignNames == {n_foo, n_f, n_nope}
SetValues == {Str(s_a)}

(* A configuration file: whether open() succeeds, and the key = value      *)
(* lines of its [config] section.                                          *)
ConfigFile(opens, lines) == [opens |-> opens, lines |-> lines]
ConfigFilesUniverse ==
    { ConfigFile(FALSE, <<>>),
      ConfigFile(TRUE, <<>>),
      ConfigFile(TRUE, << <<n_foo, s_a>> >>),
      ConfigFile(TRUE, << <<n_foo, s_7>> >>) }
ConfigFileLists == SeqsUpTo(ConfigFilesUniverse, MaxFiles)

----------------------------------------------------------------------------
(* Application: the state and its operations. *)

Parser == [option_list |-> option_list, defaults |-> defaults, raised |-> ""]

NoCmdline == [called |-> FALSE, args |-> <<>>, status |-> "none"]
NoWritten == [d \in {} |-> None]
NoInput == [open |-> FALSE, is_stdin |-> FALSE, lines |-> <<>>]
NoCall == [args |-> <<>>, from |-> 0]
Outcome(op, name, exc, code, val) ==
    [op |-> op, name |-> name, exc |-> exc, code |-> code, val |-> val]

(* Application.__init__ *)
Init ==
    /\ option_list = _init_parser.option_list
    /\ defaults = _init_parser.defaults
    /\ has_options = FALSE
    /\ options = [d \in {} |-> None]
    /\ registered = BuiltinRegistrations
    /\ cmdline = NoCmdline
    /\ written = NoWritten
    /\ result = Outcome("init", <<>>, "", 0, None)
    /\ size = <<>>
    /\ size_out = <<>>
    /\ fileno = 0
    /\ global_lineno = 0
    /\ lineno = 0
    /\ stdin = <<>>
    /\ todo = <<>>
    /\ infile = NoInput
    /\ started = <<>>
    /\ call = NoCall
    /\ pc = "app"

(* A call of an add_*_setting method that leaves the parser as p.          *)
(* Settings are declared before the command line is parsed, as             *)
(* Application._run does (add_settings, then parse_args).                  *)
Declare(p, registration) ==
    /\ pc = "app"
    /\ ~has_options
    /\ ~cmdline.called
    /\ Len(registered) < Len(BuiltinRegistrations) + MaxSettings
    /\ option_list' = p.option_list
    /\ defaults' = p.defaults
    /\ registered' = IF p.raised = "" THEN Append(registered, registration)
                     ELSE registered
    /\ result' = Outcome("add", registration.names, p.raised, 0, None)
    /\ UNCHANGED <<has_options, options, cmdline, written, size, size_out, pc>>
    /\ UNCHANGED input_vars

AddStringSetting ==
    \E names \in NameLists, default \in StringDefaults :
        Declare(add_string_setting(Parser, names, default),
                Registration("string", names, default, <<>>))

AddStringListSetting ==
    \E names \in NameLists, default \in StringListDefaults :
        Declare(add_string_list_setting(Parser, names, default),
                Registration("string_list", names, default, <<>>))

AddChoiceSetting ==
    \E names \in NameLists, possibilities \in Possibilities,
       default \in ChoiceDefaults :
        Declare(add_choice_setting(Parser, names, possibilities, default),
                Registration("choice", names, default, possibilities))

AddBooleanSetting ==
    \E names \in NameLists, default \in BooleanDefaults :
        Declare(add_boolean_setting(Parser, names, default),
                Registration("boolean", names, default, <<>>))

AddBytesizeSetting ==
    \E names \in NameLists, default \in BytesizeDefaults :
        Declare(add_bytesize_setting(Parser, names, default),
                Registration("bytesize", names, default, <<>>))

AddIntegerSetting ==
    \E names \in NameLists, default \in IntegerDefaults :
        Declare(add_integer_setting(Parser, names, default),
                Registration("integer", names, default, <<>>))

AddCallbackSetting ==
    \E names \in NameLists, default \in CallbackDefaults :
        Declare(add_callback_setting(Parser, names, "callback", 1, default),
                Registration("callback", names, default, <<>>))

(* Application.parse_args, the parser ending the parse of args as end:     *)
(* self.options is assigned only when the parser returns; the parser's     *)
(* defaults keep what the parse did to them.  A SystemExit that the parser *)
(* raises ends the program: _run passes it on as sys.exit(e.code).         *)
ParseArgsEnds(args, end) ==
    /\ pc = "app"
    /\ \A d \in DOMAIN end.defaults : Len(end.defaults[d].s) <= MaxListLen
    /\ defaults' = end.defaults
    /\ has_options' = (has_options \/ end.status = "run")
    /\ options' = IF end.status = "run" THEN end.values ELSE options
    /\ cmdline' = [called |-> TRUE, args |-> args,
                   status |-> IF end.status = "run" THEN "ok" ELSE end.status]
    /\ result' = Outcome("parse_args", <<>>,
                         CASE end.status = "run" -> ""
                           [] end.status = "exit" -> "SystemExit"
                           [] OTHER -> "Exception",
                         end.code,
                         IF end.status = "run"
                         THEN List(end.largs \o end.rargs) ELSE None)
    /\ pc' = IF end.status = "run" THEN "app" ELSE "exited"
    /\ UNCHANGED <<option_list, registered, written, size, size_out>>
    /\ UNCHANGED input_vars

parse_args(args) ==
    ParseArgsEnds(args, OptionParserParseArgs(option_list, defaults, args))

ParseArgs == \E args \in ArgLists : parse_args(args)

(* Application.get_setting: what the call returns or raises. self.options  *)
(* does not exist before parse_args has returned once; get_option returns  *)
(* None for an option string that is not declared.                         *)
get_setting(name) ==
    LET opt == _option_names(<<name>>)[1]
    IN  IF ~has_options \/ ~HasOption(option_list, opt)
        THEN [exc |-> "AttributeError", val |-> None]
        ELSE LET dest == GetOption(option_list, opt).dest
             IN  IF dest \in DOMAIN options
                 THEN [exc |-> "", val |-> options[dest]]
                 ELSE [exc |-> "AttributeError", val |-> None]

(* Application.__getitem__: the call returns or raises what get_setting    *)
(* does, and changes nothing.                                              *)
GetItem ==
    \E name \in QueryNames :
        /\ pc = "app"
        /\ get_setting(name).exc \in {"", "AttributeError"}
        /\ UNCHANGED vars

----------------------------------------------------------------------------
(* The settings operations the tests call on cliapp.Settings and app.py    *)
(* does not define: item assignment, require and load_configs. They are    *)
(* modelled from the specification, on the state of the Application. The   *)
(* resolved-value mapping of the specification is where a declaration      *)
(* records the default, the parser's defaults, and self.options as well    *)
(* once parse_args has made it: a value written to the mapping is written  *)
(* to both, so that a later parse_args keeps it for a setting the command  *)
(* line does not mention.                                                  *)

Declared(name) == HasOption(option_list, _option_names(<<name>>)[1])
OptionOf(name) == GetOption(option_list, _option_names(<<name>>)[1])

(* The kind of a declared setting. *)
Kind(option) ==
    CASE option.action = "append" -> "string_list"
      [] option.action = "store_true" -> "boolean"
      [] option.action = "callback" ->
            IF option.callback = "_parse_human_size" THEN "bytesize" ELSE "callback"
      [] option.type = "choice" -> "choice"
      [] option.type = "long" -> "integer"
      [] OTHER -> "string"

(* The mapping from settings to their current resolved values. *)
Resolved == IF has_options THEN options ELSE defaults

(* What writing values to the resolved-value mapping does, by as the     *)
(* record of who wrote.                                                    *)
Write(values, by) ==
    /\ defaults' = [d \in DOMAIN defaults |->
                        IF d \in DOMAIN values THEN values[d] ELSE defaults[d]]
    /\ options' = [d \in DOMAIN options |->
                        IF d \in DOMAIN values THEN values[d] ELSE options[d]]
    /\ written' = [d \in DOMAIN written \cup DOMAIN values |->
                        IF d \in DOMAIN values
                        THEN [by |-> by, val |-> values[d]] ELSE written[d]]
    /\ cmdline' = IF DOMAIN values = {} THEN cmdline ELSE NoCmdline

(* settings[name] = value: overwrites the resolved value, bypassing        *)
(* parsing; a boolean setting keeps the truth value of what is assigned;   *)
(* KeyError for a name that is not declared.                               *)
SetItem ==
    \E name \in AssignNames, value \in SetValues :
        /\ pc = "app"
        /\ IF ~Declared(name)
           THEN /\ result' = Outcome("set", name, "KeyError", 0, None)
                /\ UNCHANGED <<defaults, options, cmdline, written>>
           ELSE LET dest == OptionOf(name).dest
                    stored == IF Kind(OptionOf(name)) = "boolean"
                              THEN Bool(Truthy(value)) ELSE value
                IN  /\ Write([d \in {dest} |-> stored], "set")
                    /\ result' = Outcome("set", name, "", 0, None)
        /\ UNCHANGED <<option_list, has_options, registered, size, size_out, pc>>
        /\ UNCHANGED input_vars

(* Whether require is satisfied with a setting: boolean, byte-size,        *)
(* integer and choice settings always have a usable value; a list must     *)
(* not be empty; any other setting must not be None.                       *)
HasValue(option, value) ==
    CASE Kind(option) \in {"boolean", "bytesize", "integer", "choice"} -> TRUE
      [] Kind(option) = "string_list" -> Truthy(value)
      [] Kind(option) = "string" -> value # None
      [] OTHER -> TRUE

(* settings.require(name): None, or the application's exception for a      *)
(* mandatory setting without value; KeyError for a name not declared.      *)
require(name) ==
    IF ~Declared(name) THEN "KeyError"
    ELSE IF HasValue(OptionOf(name), Resolved[OptionOf(name).dest]) THEN ""
    ELSE "AppException"

(* The call returns or raises what require does, and changes nothing. *)
Require ==
    \E name \in QueryNames :
        /\ pc = "app"
        /\ require(name) \in {"", "AppException", "KeyError"}
        /\ UNCHANGED vars

(* Whether a key = value line of the [config] section sets a setting: its  *)
(* key names a declared setting of string kind.                            *)
Honoured(line) == Declared(line[1]) /\ Kind(OptionOf(line[1])) = "string"

RECURSIVE ApplyLines(_, _)
ApplyLines(values, lines) ==
    IF lines = <<>> THEN values
    ELSE ApplyLines(IF Honoured(lines[1])
                    THEN Put(values, OptionOf(lines[1][1]).dest, Str(lines[1][2]))
                    ELSE values,
                    Tail(lines))

RECURSIVE ApplyFiles(_, _)
(* The files in list order; one that cannot be opened is skipped. *)
ApplyFiles(values, files) ==
    IF files = <<>> THEN values
    ELSE ApplyFiles(IF files[1].opens THEN ApplyLines(values, files[1].lines)
                    ELSE values,
                    Tail(files))

(* The attributes load_configs writes for these files. *)
Written(files) ==
    UNION {{OptionOf(files[i].lines[j][1]).dest :
                j \in {k \in DOMAIN files[i].lines : Honoured(files[i].lines[k])}} :
           i \in {k \in DOMAIN files : files[k].opens}}

(* settings.load_configs(open), with config_files = files *)
LoadConfigs ==
    \E files \in ConfigFileLists :
        LET loaded == ApplyFiles(Resolved, files)
        IN  /\ pc = "app"
            /\ Write([d \in Written(files) |-> loaded[d]], "load_configs")
            /\ result' = Outcome("load_configs", files, "", 0, None)
            /\ UNCHANGED <<option_list, has_options, registered, size, size_out, pc>>
            /\ UNCHANGED input_vars

Next ==
    \/ AddStringSetting
    \/ AddStringListSetting
    \/ AddChoiceSetting
    \/ AddBooleanSetting
    \/ AddBytesizeSetting
    \/ AddIntegerSetting
    \/ AddCallbackSetting
    \/ ParseArgs
    \/ GetItem
    \/ SetItem
    \/ Require
    \/ LoadConfigs

Spec == Init /\ [][Next]_vars

----------------------------------------------------------------------------
(* _parse_human_size on its own: a size is chosen, then parsed. *)

SizeDigits == {"0", "1", "5"}
SizeWholes == SeqsUpTo(SizeDigits, MaxDigits) \ {<<>>}
(* The fractions .0 .5 .25 .75 .50: float(number) is then the number        *)
(* itself, and its product with a unit is below 2^53, hence exact.         *)
SizeFractions == {<<"0">>, <<"5">>, <<"2", "5">>, <<"7", "5">>, <<"5", "0">>}
SizeNumbers ==
    SizeWholes \cup {w \o <<".">> \o f : w \in SizeWholes, f \in SizeFractions}
SizeBlanks == {<<>>, <<" ">>}
SizeUnits ==
    {<<>>} \cup Range(UnitAlternatives)
      \cup {<<"K">>, <<"K", "i">>, <<"M", "I">>, <<"x">>, <<"i">>, <<"k", "k">>}
SizeBs == {<<>>, <<"b">>, <<"B">>}
SizeMalformed ==
    { <<>>, <<"x", "y", "z", "z", "y">>, <<"1", ".">>, <<".", "5">>,
      <<"1", ".", "k">>, <<"1", "b", "b">>, <<"1", ".", "5", ".", "5">>,
      <<"-", "1">>, <<"k">>, <<"1", "\n">> }
SizeInputs ==
    {lead \o number \o mid \o unit \o b \o trail :
        lead \in SizeBlanks, number \in SizeNumbers, mid \in SizeBlanks,
        unit \in SizeUnits, b \in SizeBs, trail \in SizeBlanks}
      \cup SizeMalformed

SizeInit ==
    /\ option_list = _init_parser.option_list
    /\ defaults = _init_parser.defaults
    /\ has_options = FALSE
    /\ options = [d \in {} |-> None]
    /\ registered = BuiltinRegistrations
    /\ cmdline = NoCmdline
    /\ written = NoWritten
    /\ result = Outcome("init", <<>>, "", 0, None)
    /\ size \in SizeInputs
    /\ size_out = <<>>
    /\ fileno = 0
    /\ global_lineno = 0
    /\ lineno = 0
    /\ stdin = <<>>
    /\ todo = <<>>
    /\ infile = NoInput
    /\ started = <<>>
    /\ call = NoCall
    /\ pc = "size"

ParseHumanSize ==
    /\ pc = "size"
    /\ size_out' = parse_human_size(size)
    /\ pc' = "done"
    /\ UNCHANGED <<option_list, defaults, has_options, options, registered,
                   cmdline, written, result, size>>
    /\ UNCHANGED input_vars

SizeNext == ParseHumanSize

SizeSpec == SizeInit /\ [][SizeNext]_vars

----------------------------------------------------------------------------
(* Reading the inputs: process_inputs and process_input on their own.      *)
(* The steps end where a method a subclass may redefine is called:         *)
(* open_input, process_input_line.                                         *)

n_stdin == <<"-">>
n_a == <<"a">>
n_b == <<"b">>
Line(c) == <<c, "\n">>

(* The files open() finds, with their lines; any other name is no file. *)
InputFiles == (n_a :> <<Line("x"), Line("y")>>) @@ (n_b :> <<>>)
InputNames == {n_stdin, n_a, n_b, n_nope}
InputNameLists == SeqsUpTo(InputNames, MaxNames)
(* What standard input holds when the program starts. *)
StdinLines == {<<>>, <<Line("s")>>}

settings_vars ==
    <<option_list, defaults, has_options, options, registered, cmdline,
      written, size, size_out>>

(* Application.__init__, with a standard input. *)
InputInit ==
    /\ option_list = _init_parser.option_list
    /\ defaults = _init_parser.defaults
    /\ has_options = FALSE
    /\ options = [d \in {} |-> None]
    /\ registered = BuiltinRegistrations
    /\ cmdline = NoCmdline
    /\ written = NoWritten
    /\ result = Outcome("init", <<>>, "", 0, None)
    /\ size = <<>>
    /\ size_out = <<>>
    /\ fileno = 0
    /\ global_lineno = 0
    /\ lineno = 0
    /\ stdin \in StdinLines
    /\ todo = <<>>
    /\ infile = NoInput
    /\ started = <<>>
    /\ call = NoCall
    /\ pc = "app"

(* Application.open_input: sys.stdin for '-', open(name) otherwise, which  *)
(* raises IOError (here: no open input) when there is no such file.        *)
open_input(name) ==
    IF name = n_stdin
    THEN [open |-> TRUE, is_stdin |-> TRUE, lines |-> <<>>]
    ELSE IF name \in DOMAIN InputFiles
         THEN [open |-> TRUE, is_stdin |-> FALSE, lines |-> InputFiles[name]]
         ELSE NoInput

(* The lines the open input has yet to give. *)
LinesToCome == IF infile.is_stdin THEN stdin ELSE infile.lines

(* Application.process_inputs, up to its loop. *)
process_inputs(args) ==
    /\ pc = "app"
    /\ Len(started) + Len(IF args = <<>> THEN <<n_stdin>> ELSE args) <= MaxInputs
    /\ todo' = IF args = <<>> THEN <<n_stdin>> ELSE args
    /\ call' = [args |-> args, from |-> Len(started)]
    /\ pc' = "inputs"
    /\ UNCHANGED <<fileno, global_lineno, lineno, stdin, infile, started, result>>
    /\ UNCHANGED settings_vars

ProcessInputs == \E args \in InputNameLists : process_inputs(args)

(* process_input that leaves lineno as the input before left it. *)
ProcessInputKeepsLineno ==
    /\ pc = "inputs"
    /\ fileno' = fileno + 1
    /\ started' = Append(started, [name |-> todo[1], lines |-> <<>>])
    /\ IF open_input(todo[1]).open
       THEN /\ infile' = open_input(todo[1])
            /\ pc' = "lines"
            /\ UNCHANGED <<todo, result>>
       ELSE /\ infile' = NoInput
            /\ todo' = <<>>
            /\ result' = Outcome("process_inputs", call.args, "IOError", 0, None)
            /\ pc' = "app"
    /\ UNCHANGED <<global_lineno, lineno, stdin, call>>
    /\ UNCHANGED settings_vars

(* Application.process_input, called by the loop of process_inputs, up to  *)
(* its own loop: the input is counted and opened. An IOError of open ends  *)
(* process_input and process_inputs; the caller goes on.                   *)
ProcessInput ==
    /\ pc = "inputs"
    /\ fileno' = fileno + 1
    /\ lineno' = 0
    /\ started' = Append(started, [name |-> todo[1], lines |-> <<>>])
    /\ IF open_input(todo[1]).open
       THEN /\ infile' = open_input(todo[1])
            /\ pc' = "lines"
            /\ UNCHANGED <<todo, result>>
       ELSE /\ infile' = NoInput
            /\ todo' = <<>>
            /\ result' = Outcome("process_inputs", call.args, "IOError", 0, None)
            /\ pc' = "app"
    /\ UNCHANGED <<global_lineno, stdin, call>>
    /\ UNCHANGED settings_vars

(* The loop of process_input: a line is read, counted and handed to        *)
(* process_input_line.                                                     *)
ProcessInputLine ==
    /\ pc = "lines"
    /\ LinesToCome # <<>>
    /\ global_lineno' = global_lineno + 1
    /\ lineno' = lineno + 1
    /\ started' = [started EXCEPT ![Len(started)].lines = Append(@, Head(LinesToCome))]
    /\ IF infile.is_stdin
       THEN stdin' = Tail(stdin) /\ UNCHANGED infile
       ELSE infile' = [infile EXCEPT !.lines = Tail(@)] /\ UNCHANGED stdin
    /\ UNCHANGED <<fileno, todo, call, result, pc>>
    /\ UNCHANGED settings_vars

(* The end of process_input: the input has no more lines and is closed     *)
(* unless it is sys.stdin; the loop of process_inputs goes on, or          *)
(* process_inputs returns.                                                 *)
CloseInput ==
    /\ pc = "lines"
    /\ LinesToCome = <<>>
    /\ infile' = NoInput
    /\ todo' = Tail(todo)
    /\ IF Tail(todo) = <<>>
       THEN /\ result' = Outcome("process_inputs", call.args, "", 0, None)
            /\ pc' = "app"
       ELSE /\ pc' = "inputs"
            /\ UNCHANGED result
    /\ UNCHANGED <<fileno, global_lineno, lineno, stdin, started, call>>
    /\ UNCHANGED settings_vars

InputNext ==
    \/ ProcessInputs
    \/ ProcessInput
    \/ ProcessInputLine
    \/ CloseInput

InputSpec == InputInit /\ [][InputNext]_vars

----------------------------------------------------------------------------
(* Properties. *)

(* The default a declaration gives its setting: the first possibility of   *)
(* a choice setting, the empty list for a list setting declared with no    *)
(* default, the default argument for any other kind.                       *)
DeclaredDefault(r) ==
    CASE r.kind = "choice" -> Str(r.possibilities[1])
      [] r.kind = "string_list" ->
            IF Truthy(r.default) THEN r.default ELSE List(<<>>)
      [] OTHER -> r.default

(* No parse_args call has returned, and no assignment or load_configs has  *)
(* written a value.                                                        *)
BeforeParsing == pc = "app" /\ ~has_options /\ written = NoWritten

(* The declarations made after construction. *)
UserRegistrations == {i \in DOMAIN registered : i > Len(BuiltinRegistrations)}

Mentions(arg, option) == \E o \in Range(option.opts) : HasPrefixAt(arg, 1, o)

(* Whether the argument is --name=value for a long flag of the option, and *)
(* the value it gives.                                                     *)
Assigns(arg, option) ==
    \E o \in Range(LongOpts(option.opts)) : HasPrefixAt(arg, 1, o \o <<"=">>)
AssignedValue(arg) == SubSeq(arg, IndexOf(arg, "=") + 1, Len(arg))

(* The arguments of the parsed command line that are flags of the option. *)
Given(option) == SelectSeq(cmdline.args, LAMBDA arg : Mentions(arg, option))

(* A setting the latest load_configs has given a value, not assigned since. *)
ConfigLoaded(name) ==
    /\ Declared(name)
    /\ OptionOf(name).dest \in DOMAIN written
    /\ written[OptionOf(name).dest].by = "load_configs"

DeclaredDefaults ==
    [d \in DOMAIN defaults |->
        IF \E i \in DOMAIN registered : _attr_name(registered[i].names[1]) = d
        THEN DeclaredDefault(
                registered[CHOOSE i \in DOMAIN registered :
                                _attr_name(registered[i].names[1]) = d])
        ELSE None]

(* self.options is what the latest parse_args made it, and nothing has     *)
(* been assigned or loaded.                                                *)
ParsedOnly == pc = "app" /\ cmdline.status = "ok" /\ written = NoWritten

(* C3: command-line values do not leak between parse_args calls: the       *)
(* values after the latest parse_args(B) are those of parse_args(B) alone, *)
(* from the declared defaults, whatever was parsed before, and no parse    *)
(* alters the declared defaults.                                           *)
NoLeakBetweenParses ==
    ParsedOnly =>
        /\ options = OptionParserParseArgs(option_list, DeclaredDefaults,
                                           cmdline.args).values
        /\ defaults = DeclaredDefaults

(* The values the --name=value arguments give, in command-line order. *)
AssignedValues(given) == [k \in DOMAIN given |-> AssignedValue(given[k])]

(* C4: a string-list setting registered under the one name foo with the    *)
(* declared default D holds D after a parse_args without its flag, and     *)
(* exactly the supplied values, in command-line order, after a parse_args  *)
(* with one or more --foo=value arguments.                                 *)
StringListReplacesDefault ==
    ParsedOnly =>
        \A i \in UserRegistrations :
            (registered[i].kind = "string_list" /\ registered[i].names = <<n_foo>>) =>
                LET given == Given(OptionOf(n_foo))
                IN  get_setting(n_foo)
                        = [exc |-> "",
                           val |-> IF given = <<>>
                                   THEN DeclaredDefault(registered[i])
                                   ELSE List(AssignedValues(given))]

(* C5: whatever default argument a choice setting is registered with, get  *)
(* by any of its names returns the first possibility after a parse_args    *)
(* without its flag.                                                       *)
ChoiceDefaultIsFirst ==
    ParsedOnly =>
        \A i \in UserRegistrations :
            registered[i].kind = "choice" =>
                \A k \in DOMAIN registered[i].names :
                    LET name == registered[i].names[k]
                    IN  Given(OptionOf(name)) = <<>> =>
                            get_setting(name)
                                = [exc |-> "",
                                   val |-> Str(registered[i].possibilities[1])]

(* Every argument of the parsed command line is --name=value. *)
AllAssignments == \A k \in DOMAIN cmdline.args : IndexOf(cmdline.args[k], "=") > 0

(* C6: on a command line of --name=value arguments of which one at least   *)
(* names a choice setting, parse_args returns, and get returns the last    *)
(* value given, if every value given the setting is one of its             *)
(* possibilities; it raises SystemExit with status 2, and the program      *)
(* ends, if one is not.                                                    *)
ChoiceAcceptsMembersOnly ==
    \A i \in UserRegistrations :
        LET name == registered[i].names[1]
            given == Given(OptionOf(name))
            values == AssignedValues(given)
        IN  (/\ registered[i].kind = "choice"
             /\ cmdline.called
             /\ AllAssignments
             /\ given # <<>>) =>
                IF \A k \in DOMAIN values :
                        values[k] \in Range(registered[i].possibilities)
                THEN /\ cmdline.status = "ok"
                     /\ pc = "app"
                     /\ get_setting(name)
                            = [exc |-> "", val |-> Str(values[Len(values)])]
                ELSE /\ cmdline.status = "exit"
                     /\ pc = "exited"
                     /\ result.exc = "SystemExit"
                     /\ result.code = 2

(* C6: a choice setting has been given one of its possibilities that is    *)
(* not the first, and get returns it.                                      *)
ChoiceMemberWitness ==
    \E i \in UserRegistrations :
        /\ registered[i].kind = "choice"
        /\ cmdline.status = "ok"
        /\ AllAssignments
        /\ Given(OptionOf(registered[i].names[1])) # <<>>
        /\ get_setting(registered[i].names[1]).val = Str(s_a)

(* C8: in every state, get of a name that was never declared fails with    *)
(* KeyError, and so has the latest assignment if its name was not          *)
(* declared.                                                               *)
UndeclaredRaisesKeyError ==
    pc = "app" =>
        /\ \A name \in QueryNames :
                ~Declared(name) => get_setting(name).exc = "KeyError"
        /\ (result.op = "set" /\ ~Declared(result.name)) => result.exc = "KeyError"

RECURSIVE LastDefined(_, _, _)
(* The value the last file of the list that can be opened and has a line   *)
(* for one of the keys gives them, and prior if there is no such file.     *)
LastDefined(files, keys, prior) ==
    IF files = <<>> THEN prior
    ELSE LET file == files[Len(files)]
             hits == {j \in DOMAIN file.lines : file.lines[j][1] \in keys}
         IN  IF file.opens /\ hits # {}
             THEN Str(file.lines[CHOOSE j \in hits : \A k \in hits : k <= j][2])
             ELSE LastDefined(SubSeq(files, 1, Len(files) - 1), keys, prior)

LogLevels ==
    { <<"d", "e", "b", "u", "g">>, s_info,
      <<"w", "a", "r", "n", "i", "n", "g">>, <<"e", "r", "r", "o", "r">>,
      <<"c", "r", "i", "t", "i", "c", "a", "l">>, <<"f", "a", "t", "a", "l">> }

(* C11, as the specification states it: log-level is a choice setting, so  *)
(* in every state reached after a parse_args that returned, its value is   *)
(* one of debug, info, warning, error, critical and fatal.                 *)
LogLevelIsChoice ==
    (pc = "app" /\ cmdline.status = "ok") =>
        /\ get_setting(n_log_level).exc = ""
        /\ get_setting(n_log_level).val \in {Str(level) : level \in LogLevels}

(* Each name identifies exactly one setting: no option string belongs to   *)
(* two options of the parser, no name to two registered settings, and      *)
(* every name of a registered setting is a flag of the one option that     *)
(* has exactly that setting's names.                                       *)
NamesUnique ==
    /\ \A i, j \in DOMAIN option_list :
            Range(option_list[i].opts) \cap Range(option_list[j].opts) # {} => i = j
    /\ \A i, j \in DOMAIN registered :
            Range(registered[i].names) \cap Range(registered[j].names) # {} => i = j
    /\ \A i \in DOMAIN registered : \A name \in Range(registered[i].names) :
            /\ Declared(name)
            /\ OptionOf(name).opts = _option_names(registered[i].names)

(* C12: an add_*_setting call one of whose names is already a name of a    *)
(* declared setting fails, with OptionConflictError, and leaves the        *)
(* declared settings, their defaults and their resolved values as they     *)
(* were; a call that succeeds adds one setting, under the names given;     *)
(* and in every reachable state each name identifies exactly one setting.  *)
DuplicateNameRejected ==
    /\ [][result'.op = "add" =>
            IF \E name \in Range(result'.name) : Declared(name)
            THEN /\ result'.exc = "OptionConflictError"
                 /\ UNCHANGED <<option_list, registered, defaults, has_options,
                                options>>
            ELSE result'.exc = "" =>
                 /\ Len(option_list') = Len(option_list) + 1
                 /\ Len(registered') = Len(registered) + 1
                 /\ registered'[Len(registered')].names = result'.name]_vars
    /\ []NamesUnique

(* C12: a setting has been declared by the application, and a later call   *)
(* that names it again, under a second name list, has failed.              *)
DuplicateNameWitness ==
    /\ result.op = "add"
    /\ result.exc = "OptionConflictError"
    /\ Len(registered) = Len(BuiltinRegistrations) + 1
    /\ registered[Len(registered)].names # result.name
    /\ Range(registered[Len(registered)].names) \cap Range(result.name) # {}

(* C13: after a parse_args that returned, a setting registered with        *)
(* several names has the same value under each of its names: the declared  *)
(* default when no argument is a flag of it, and, for a string setting     *)
(* whose flags come as --name=value, the value of the last of them.        *)
AliasesAgree ==
    ParsedOnly =>
        \A i \in UserRegistrations :
            Len(registered[i].names) > 1 =>
                LET r == registered[i]
                    given == Given(OptionOf(r.names[1]))
                IN  \A name \in Range(r.names) :
                        /\ get_setting(name) = get_setting(r.names[1])
                        /\ given = <<>> =>
                              get_setting(name)
                                = [exc |-> "", val |-> DeclaredDefault(r)]
                        /\ ( /\ r.kind = "string"
                             /\ given # <<>>
                             /\ \A k \in DOMAIN given :
                                    Assigns(given[k], OptionOf(name)) ) =>
                              get_setting(name)
                                = [exc |-> "",
                                   val |-> Str(AssignedValue(given[Len(given)]))]

----------------------------------------------------------------------------
(* Properties of process_inputs and process_input, under InputSpec. *)

RECURSIVE TotalLines(_)
(* The number of lines the inputs of a history have given. *)
TotalLines(inputs) ==
    IF inputs = <<>> THEN 0
    ELSE Len(inputs[Len(inputs)].lines)
            + TotalLines(SubSeq(inputs, 1, Len(inputs) - 1))

RECURSIVE StdinRead(_)
(* The lines the inputs named '-' of a history have given, in order. *)
StdinRead(inputs) ==
    IF inputs = <<>> THEN <<>>
    ELSE StdinRead(SubSeq(inputs, 1, Len(inputs) - 1))
            \o (IF inputs[Len(inputs)].name = n_stdin
                THEN inputs[Len(inputs)].lines ELSE <<>>)

(* The names process_input has been called with since the latest           *)
(* process_inputs call.                                                    *)
NamesSinceCall ==
    [j \in 1..(Len(started) - call.from) |-> started[call.from + j].name]

(* C14: fileno is the number of process_input calls, global_lineno the     *)
(* number of lines read over all of them, lineno the number of lines read  *)
(* from the latest, and lineno <= global_lineno, in every state; an input  *)
(* that has been read to its end has given all of its lines, and standard  *)
(* input gives each of its lines once; the process_input calls of a        *)
(* process_inputs call that has returned are those of its list, in order,  *)
(* or the one call with '-' when the list is empty, and those of a call    *)
(* that an unopenable input ended are those up to that input.              *)
CountersCountInputs ==
    /\ fileno = Len(started)
    /\ global_lineno = TotalLines(started)
    /\ lineno = IF started = <<>> THEN 0 ELSE Len(started[Len(started)].lines)
    /\ lineno <= global_lineno
    /\ \A i \in DOMAIN started :
            (i < Len(started) \/ pc # "lines") =>
                \/ started[i].name = n_stdin
                \/ started[i].lines
                     = IF started[i].name \in DOMAIN InputFiles
                       THEN InputFiles[started[i].name] ELSE <<>>
    /\ StdinRead(started) \o stdin \in StdinLines
    /\ LET names == IF call.args = <<>> THEN <<n_stdin>> ELSE call.args
           made == NamesSinceCall
       IN  /\ Len(made) <= Len(names)
           /\ made = SubSeq(names, 1, Len(made))
           /\ (pc = "app" /\ result.op = "process_inputs") =>
                IF result.exc = "" THEN made = names
                ELSE ~open_input(made[Len(made)]).open

(* C14: process_inputs(['a', 'b']) and then process_inputs([]) have        *)
(* returned: three inputs, three lines in all, one of them from standard   *)
(* input, the latest.                                                      *)
CountersWitness ==
    /\ pc = "app"
    /\ result = Outcome("process_inputs", <<>>, "", 0, None)
    /\ [i \in DOMAIN started |-> started[i].name] = <<n_a, n_b, n_stdin>>
    /\ fileno = 3
    /\ global_lineno = 3
    /\ lineno = 1

----------------------------------------------------------------------------
(* Properties of _parse_human_size, under SizeSpec. *)

RECURSIVE StripRight(_)
StripRight(cs) ==
    IF cs # <<>> /\ IsSpace(cs[Len(cs)])
    THEN StripRight(SubSeq(cs, 1, Len(cs) - 1)) ELSE cs

(* A string without the white space around it. *)
Strip(cs) == StripRight(SubSeq(cs, SpaceRun(cs, 1), Len(cs)))

(* The multipliers of the units: 1000^1..4 for k, m, g, t and 1024^1..4    *)
(* for ki, mi, gi, ti; 1 without unit.                                     *)
ClaimedMultiplier(unit) ==
    LET n == CASE unit[1] = "k" -> 1 [] unit[1] = "m" -> 2
               [] unit[1] = "g" -> 3 [] OTHER -> 4
    IN  IF unit = <<>> THEN <<1>>
        ELSE IF Len(unit) = 1 THEN BigPow(10, 3 * n)
        ELSE BigPow(2, 10 * n)

(* The size the specification gives a string: a number with an optional    *)
(* fraction, an optional unit and an optional b, in any letter case and    *)
(* with optional white space around the whole, is floor(number *           *)
(* multiplier); any other string is 0.                                     *)
ClaimedSize(sz) ==
    LET cs == Lower(Strip(sz))
        i1 == DigitRun(cs, 1)
        hasFrac == i1 + 1 <= Len(cs) /\ cs[i1] = "." /\ IsDigit(cs[i1 + 1])
        i2 == IF hasFrac THEN DigitRun(cs, i1 + 1) ELSE i1
        rest == SubSeq(cs, i2, Len(cs))
        unit == IF rest # <<>> /\ rest[Len(rest)] = "b"
                THEN SubSeq(rest, 1, Len(rest) - 1) ELSE rest
        digits == SubSeq(cs, 1, i1 - 1)
                    \o (IF hasFrac THEN SubSeq(cs, i1 + 1, i2 - 1) ELSE <<>>)
    IN  IF i1 > 1 /\ unit \in {<<>>} \cup Range(UnitAlternatives)
        THEN BigDivSmall(BigMul(BigOfDigits(digits), ClaimedMultiplier(unit)),
                         TenTo(i2 - i1 - (IF hasFrac THEN 1 ELSE 0)))
        ELSE <<>>

(* C7: the byte-size parser returns floor(number * multiplier) for every   *)
(* string that is a number with an optional unit and an optional trailing  *)
(* b, in any letter case, with optional white space before and after, and  *)
(* 0 for every other string.                                               *)
ParsesClaimedSizes == pc = "done" => size_out = ClaimedSize(size)

====
